---------------------------- MODULE Spec2Model ----------------------------
(***************************************************************************)
(* Odin's Eye (src/Odins_eye.py): the base-64 oscillator.  encode walks a  *)
(* position over the lattice [LOW, HIGH], one step per 6-bit symbol of the *)
(* packed input; decode re-derives the symbols by a backward search from   *)
(* the anchor and verifies the recovered bytes against the stored digest.  *)
(***************************************************************************)
EXTENDS Integers, Sequences, FiniteSets, TLC

\* ------------------------------------------------------------------------
\* Program constants (class OdinsEye)
\* ------------------------------------------------------------------------
LOW == 10000
HIGH == 99999
STEP_FACTOR == 8
CENTER == 32

\* ------------------------------------------------------------------------
\* Bounds of the model
\* ------------------------------------------------------------------------
\* longest byte buffer handed to encode
MaxLen == 2

\* byte values the buffers are built from: first symbols 0, 1, 31, 32, 33, 63
\* and final (padded) symbols 0, 16, 32, 48
ByteVals == {0, 4, 127, 128, 130, 131, 132, 255}

\* start_mask values handed to the constructor: both bounds, positions within
\* one step of a bound, and interior positions
StartMasks ==
    {LOW, LOW + 8, LOW + 100, LOW + 600, 50000, HIGH - 600, HIGH - 100, HIGH - 8, HIGH}

\* the value of a Python variable holding None
None == -1

\* a coordinate without an "original_hash" field: coord.get returns None
NoHash == << >>

VARIABLES
    start_mask,        \* self.start_mask
    pc,                \* position of the caller / of the running call
    data,              \* the argument of encode
    chunks,            \* encode: the packed symbols
    current,           \* encode: current
    direction,         \* encode: direction
    anchor,            \* encode: anchor
    walk,              \* history: one record per forward step taken
    coord,             \* the coordinate returned by encode or loaded
    origin,            \* history: who built coord ("encode", "stored", "probe")
    dcurrent,          \* decode: current
    ddirection,        \* decode: direction
    remaining_chunks,  \* decode: remaining_chunks
    bit_buffer,        \* decode: bit_buffer, as one sequence of bits
    recovered,         \* decode: recovered
    back,              \* history: one record per backward step taken
    step1,             \* history: the anchor verification of decode ran
    compared,          \* history: the digest comparison of decode was evaluated
    result,            \* what decode returned or raised
    spc,               \* position of the decode_stream generator
    s_bit_buffer,      \* decode_stream: bit_buffer, as one sequence of bits
    s_bytes_yielded,   \* decode_stream: bytes_yielded
    s_current,         \* decode_stream: current
    s_direction,       \* decode_stream: direction
    s_remaining,       \* decode_stream: remaining_chunks
    s_back,            \* history: one record per backward step of the stream
    emitted,           \* history: the bytes the stream has yielded, in order
    s_result,          \* how the stream ended: exhausted ("done") or raised
    runway_start,      \* user.runway_start
    last_checked_mask, \* user.last_checked_mask
    ppc,               \* position of poll_inbox
    p_current,         \* poll_inbox: current
    batch_end,         \* poll_inbox: batch_end
    mask,              \* poll_inbox: mask
    cycle_start,       \* history: last_checked_mask when the cycle began
    probed,            \* history: candidate masks tried in this cycle
    caught,            \* history: exceptions caught in this cycle
    apc,               \* position of poll_anomalies
    a_current,         \* poll_anomalies: current
    a_guess,           \* poll_anomalies: index of guess_len in [512, 1024]
    a_found,           \* poll_anomalies: found
    a_caught           \* history: exceptions caught by poll_anomalies

vars ==
    << start_mask, pc, data, chunks, current, direction, anchor, walk, coord, origin,
       dcurrent, ddirection, remaining_chunks, bit_buffer, recovered, back, step1,
       compared, result, spc, s_bit_buffer, s_bytes_yielded, s_current, s_direction,
       s_remaining, s_back, emitted, s_result, runway_start, last_checked_mask, ppc,
       p_current, batch_end, mask, cycle_start, probed, caught, apc, a_current,
       a_guess, a_found, a_caught >>

\* ------------------------------------------------------------------------
\* Bit strings
\* ------------------------------------------------------------------------
RECURSIVE Pow2(_)
Pow2(n) ==
    IF n = 0 THEN 1 ELSE 2 * Pow2(n - 1)

\* f'{v:0wb}' for 0 <= v < 2^w, most significant bit first
Bin(v, w) ==
    [k \in 1..w |-> (v \div Pow2(w - k)) % 2]

\* int(s, 2)
RECURSIVE Int2(_)
Int2(s) ==
    IF s = << >> THEN 0 ELSE 2 * Int2(SubSeq(s, 1, Len(s) - 1)) + s[Len(s)]

\* ''.join(f'{b:08b}' for b in data)
RECURSIVE BitString(_)
BitString(d) ==
    IF d = << >> THEN << >> ELSE Bin(Head(d), 8) \o BitString(Tail(d))

Min(a, b) ==
    IF a <= b THEN a ELSE b

\* Pack leaving the final short group unshifted
PackNoShift(d) ==
    LET bs == BitString(d)
        n == (Len(bs) + 5) \div 6
        grp(k) == SubSeq(bs, 6 * (k - 1) + 1, Min(6 * k, Len(bs)))
    IN  [k \in 1..n |-> Int2(grp(k))]

\* encode, lines 38-41: 6-bit groups, the final short group shifted left
Pack(d) ==
    LET bs == BitString(d)
        n == (Len(bs) + 5) \div 6
        grp(k) == SubSeq(bs, 6 * (k - 1) + 1, Min(6 * k, Len(bs)))
    IN  [k \in 1..n |->
            IF k = n /\ Len(bs) % 6 # 0
            THEN Int2(grp(k)) * Pow2(6 - (Len(bs) % 6))
            ELSE Int2(grp(k))]

\* decode, lines 138-140: truncate to length_bytes * 8 bits, regroup in bytes
Unpack(bits, length_bytes) ==
    LET bit_str == SubSeq(bits, 1, Min(Len(bits), length_bytes * 8))
        n == (Len(bit_str) + 7) \div 8
    IN  [k \in 1..n |-> Int2(SubSeq(bit_str, 8 * (k - 1) + 1, Min(8 * k, Len(bit_str))))]

\* decode, line 138: ''.join of the symbols written as 6-bit strings
RECURSIVE SymbolBits(_)
SymbolBits(syms) ==
    IF syms = << >> THEN << >> ELSE Bin(Head(syms), 6) \o SymbolBits(Tail(syms))

\* hashlib.sha256(d).hexdigest(), taken as collision-free: a non-empty value
\* that determines d
Digest(d) ==
    << Len(d) >> \o d

\* ------------------------------------------------------------------------
\* Forward walk
\* ------------------------------------------------------------------------
\* Step without the "elif next_current < LOW" branch
StepNoLowerReset(pos, dir, d) ==
    LET delta == dir * (d - CENTER) * STEP_FACTOR
        next_current == pos + delta
    IN  IF next_current > HIGH THEN [pos |-> LOW, dir |-> 1]
        ELSE [pos |-> next_current, dir |-> dir]

\* Step stopping at the bound it crossed instead of resetting to the other
StepClamp(pos, dir, d) ==
    LET delta == dir * (d - CENTER) * STEP_FACTOR
        next_current == pos + delta
    IN  IF next_current > HIGH THEN [pos |-> HIGH, dir |-> 1]
        ELSE IF next_current < LOW THEN [pos |-> LOW, dir |-> -1]
        ELSE [pos |-> next_current, dir |-> dir]

\* Step negating the direction on every reset
StepFlip(pos, dir, d) ==
    LET delta == dir * (d - CENTER) * STEP_FACTOR
        next_current == pos + delta
    IN  IF next_current > HIGH THEN [pos |-> LOW, dir |-> -dir]
        ELSE IF next_current < LOW THEN [pos |-> HIGH, dir |-> -dir]
        ELSE [pos |-> next_current, dir |-> dir]

\* one iteration of encode's loop: the new (current, direction)
Step(pos, dir, d) ==
    LET delta == dir * (d - CENTER) * STEP_FACTOR
        next_current == pos + delta
    IN  IF next_current > HIGH THEN [pos |-> LOW, dir |-> 1]
        ELSE IF next_current < LOW THEN [pos |-> HIGH, dir |-> -1]
        ELSE [pos |-> next_current, dir |-> dir]

\* the coordinate encode returns for empty data
EmptyCoord(sm) ==
    [start_mask |-> sm, end_mask |-> sm, anchor_mask |-> sm, last_choice |-> 0,
     last_direction |-> 1, length_bytes |-> 0, original_hash |-> Digest(<< >>)]

\* the coordinate encode returns after the walk
WalkCoord(sm, cur, anc, ch, dir, d) ==
    [start_mask |-> sm, end_mask |-> cur,
     anchor_mask |-> IF anc # None THEN anc ELSE sm,
     last_choice |-> IF ch # << >> THEN ch[Len(ch)] ELSE 0,
     last_direction |-> dir, length_bytes |-> Len(d), original_hash |-> Digest(d)]

NoCoord ==
    [start_mask |-> 0, end_mask |-> 0, anchor_mask |-> 0, last_choice |-> 0,
     last_direction |-> 0, length_bytes |-> 0, original_hash |-> NoHash]

\* ------------------------------------------------------------------------
\* Backward resolution (decode)
\* ------------------------------------------------------------------------
\* AnchorCheck accepting every coordinate
AnchorCheckSkip(c) ==
    [ok |-> TRUE, dir |-> c.last_direction]

\* decode, lines 92-102: the anchor verification of the last step; the
\* direction the backward loop starts with, or the failure
AnchorCheck(c) ==
    LET delta == (c.last_choice - CENTER) * STEP_FACTOR
        dir0 == c.last_direction
        expected_prev == c.end_mask - dir0 * delta
    IN  IF expected_prev = c.anchor_mask THEN [ok |-> TRUE, dir |-> dir0]
        ELSE IF c.end_mask = LOW
        THEN [ok |-> (c.anchor_mask - dir0 * delta + (HIGH - LOW) = c.anchor_mask),
              dir |-> 1]
        ELSE IF c.end_mask = HIGH
        THEN [ok |-> (c.anchor_mask - dir0 * delta - (HIGH - LOW) = c.anchor_mask),
              dir |-> -1]
        ELSE [ok |-> FALSE, dir |-> dir0]

\* Prev stepping forward instead of backward
PrevForward(cur, dir, d) ==
    cur + dir * (d - CENTER) * STEP_FACTOR

\* decode, lines 111-112: the predecessor candidate d stands for
Prev(cur, dir, d) ==
    cur - dir * (d - CENTER) * STEP_FACTOR

\* Accept unwinding a reset when the predecessor lies beyond the bound the
\* position is on
AcceptWrongSide(cur, dir, d) ==
    LET prev == Prev(cur, dir, d)
    IN  IF LOW <= prev /\ prev <= HIGH
        THEN [found |-> TRUE, d |-> d, pos |-> prev, dir |-> dir]
        ELSE IF cur = LOW /\ prev < LOW
        THEN [found |-> TRUE, d |-> d, pos |-> prev + (HIGH - LOW), dir |-> 1]
        ELSE IF cur = HIGH /\ prev > HIGH
        THEN [found |-> TRUE, d |-> d, pos |-> prev - (HIGH - LOW), dir |-> -1]
        ELSE [found |-> FALSE, d |-> d, pos |-> cur, dir |-> dir]

\* decode, lines 114-131: what accepting candidate d resolves to, if accepted
Accept(cur, dir, d) ==
    LET prev == Prev(cur, dir, d)
    IN  IF LOW <= prev /\ prev <= HIGH
        THEN [found |-> TRUE, d |-> d, pos |-> prev, dir |-> dir]
        ELSE IF cur = LOW /\ prev > HIGH
        THEN [found |-> TRUE, d |-> d, pos |-> prev - (HIGH - LOW), dir |-> 1]
        ELSE IF cur = HIGH /\ prev < LOW
        THEN [found |-> TRUE, d |-> d, pos |-> prev + (HIGH - LOW), dir |-> -1]
        ELSE [found |-> FALSE, d |-> d, pos |-> cur, dir |-> dir]

\* SearchFrom trying only the candidates below CENTER
SearchFromHalf(cur, dir) ==
    LET ok == {d \in 0..(CENTER - 1) : Accept(cur, dir, d).found}
    IN  IF ok = {} THEN [found |-> FALSE, d |-> 0, pos |-> cur, dir |-> dir]
        ELSE Accept(cur, dir, CHOOSE d \in ok : \A e \in ok : d <= e)

\* SearchFrom trying the candidates in descending order
SearchFromDescending(cur, dir) ==
    LET ok == {d \in 0..63 : Accept(cur, dir, d).found}
    IN  IF ok = {} THEN [found |-> FALSE, d |-> 0, pos |-> cur, dir |-> dir]
        ELSE Accept(cur, dir, CHOOSE d \in ok : \A e \in ok : d >= e)

\* decode, line 110: "for d in range(64)" with break on the first accepted d
SearchFrom(cur, dir) ==
    LET ok == {d \in 0..63 : Accept(cur, dir, d).found}
    IN  IF ok = {} THEN [found |-> FALSE, d |-> 0, pos |-> cur, dir |-> dir]
        ELSE Accept(cur, dir, CHOOSE d \in ok : \A e \in ok : d <= e)

\* NothingToResolve with the empty case missing
NothingToResolveNever(c) ==
    FALSE

\* decode, line 83: the empty buffer needs no resolution
NothingToResolve(c) ==
    c.length_bytes = 0

\* TotalChunks counting one symbol more
TotalChunksPlusOne(length_bytes) ==
    (length_bytes * 8 + 5) \div 6 + 1

\* decode, line 105
TotalChunks(length_bytes) ==
    (length_bytes * 8 + 5) \div 6

NoResult ==
    [kind |-> "none", bytes |-> << >>, err |-> ""]

Returned(b) ==
    [kind |-> "bytes", bytes |-> b, err |-> ""]

Raised(e) ==
    [kind |-> "error", bytes |-> << >>, err |-> e]

\* Verify returning the recovered bytes without the comparison
VerifyUnchecked(expected_hash, rec) ==
    Returned(rec)

\* decode, lines 142-146: the hash verification and the return
Verify(expected_hash, rec) ==
    IF expected_hash # NoHash /\ Digest(rec) # expected_hash
    THEN Raised("IntegrityMismatch")
    ELSE Returned(rec)

\* ------------------------------------------------------------------------
\* Streaming resolution (decode_stream)
\* ------------------------------------------------------------------------
\* the generator ran to its end without raising
Exhausted ==
    [kind |-> "done", bytes |-> << >>, err |-> ""]

\* StreamAnchorCheck adding the last step's delta instead of removing it
StreamAnchorCheckSign(c) ==
    LET delta == (c.last_choice - CENTER) * STEP_FACTOR
        expected_prev == c.end_mask + c.last_direction * delta
    IN  IF expected_prev = c.anchor_mask THEN [ok |-> TRUE, dir |-> c.last_direction]
        ELSE IF c.end_mask = LOW
        THEN [ok |-> (c.anchor_mask - c.last_direction * delta + (HIGH - LOW)
                         = c.anchor_mask),
              dir |-> 1]
        ELSE IF c.end_mask = HIGH
        THEN [ok |-> (c.anchor_mask - c.last_direction * delta - (HIGH - LOW)
                         = c.anchor_mask),
              dir |-> -1]
        ELSE [ok |-> FALSE, dir |-> c.last_direction]

\* decode_stream, lines 166-179: the anchor verification of the last step
StreamAnchorCheck(c) ==
    LET delta == (c.last_choice - CENTER) * STEP_FACTOR
        expected_prev == c.end_mask - c.last_direction * delta
    IN  IF expected_prev = c.anchor_mask THEN [ok |-> TRUE, dir |-> c.last_direction]
        ELSE IF c.end_mask = LOW
        THEN [ok |-> (c.anchor_mask - c.last_direction * delta + (HIGH - LOW)
                         = c.anchor_mask),
              dir |-> 1]
        ELSE IF c.end_mask = HIGH
        THEN [ok |-> (c.anchor_mask - c.last_direction * delta - (HIGH - LOW)
                         = c.anchor_mask),
              dir |-> -1]
        ELSE [ok |-> FALSE, dir |-> c.last_direction]

\* decode_stream, lines 188-208: what accepting candidate d resolves to
StreamAccept(cur, dir, d) ==
    LET delta == dir * (d - CENTER) * STEP_FACTOR
        prev == cur - delta
    IN  IF LOW <= prev /\ prev <= HIGH
        THEN [found |-> TRUE, d |-> d, pos |-> prev, dir |-> dir]
        ELSE IF cur = LOW /\ prev > HIGH
        THEN [found |-> TRUE, d |-> d, pos |-> prev - (HIGH - LOW), dir |-> 1]
        ELSE IF cur = HIGH /\ prev < LOW
        THEN [found |-> TRUE, d |-> d, pos |-> prev + (HIGH - LOW), dir |-> -1]
        ELSE [found |-> FALSE, d |-> d, pos |-> cur, dir |-> dir]

\* decode_stream, line 187: "for d in range(64)" with break on the first
\* accepted d
StreamSearchFrom(cur, dir) ==
    LET ok == {d \in 0..63 : StreamAccept(cur, dir, d).found}
    IN  IF ok = {} THEN [found |-> FALSE, d |-> 0, pos |-> cur, dir |-> dir]
        ELSE StreamAccept(cur, dir, CHOOSE d \in ok : \A e \in ok : d <= e)

\* StreamTotalChunks rounding down
StreamTotalChunksFloor(total_bits) ==
    total_bits \div 6

\* decode_stream, line 182
StreamTotalChunks(total_bits) ==
    (total_bits + 5) \div 6

\* StreamPut prepending the symbol as decode does
StreamPutFront(buf, d) ==
    Bin(d, 6) \o buf

\* decode_stream, lines 163, 192, 198, 204: bit_buffer += f'{d:06b}'
StreamPut(buf, d) ==
    buf \o Bin(d, 6)

\* decode_stream, lines 216-224: yield the complete bytes of the buffer, and
\* return once length_bytes bytes were yielded
RECURSIVE YieldLoop(_, _, _, _)
YieldLoop(buf, out, yielded, length_bytes) ==
    IF Len(buf) >= 8
    THEN LET byte == Int2(SubSeq(buf, 1, 8))
             rest == SubSeq(buf, 9, Len(buf))
         IN  IF yielded + 1 >= length_bytes
             THEN [buf |-> rest, out |-> Append(out, byte), yielded |-> yielded + 1,
                   returned |-> TRUE]
             ELSE YieldLoop(rest, Append(out, byte), yielded + 1, length_bytes)
    ELSE [buf |-> buf, out |-> out, yielded |-> yielded, returned |-> FALSE]

\* decode_stream, lines 226-232: the final flush yields every complete byte
RECURSIVE FinalFlush(_, _, _)
FinalFlush(buf, out, yielded) ==
    IF Len(buf) >= 8
    THEN FinalFlush(SubSeq(buf, 9, Len(buf)), Append(out, Int2(SubSeq(buf, 1, 8))),
                    yielded + 1)
    ELSE [buf |-> buf, out |-> out, yielded |-> yielded]

\* ------------------------------------------------------------------------
\* One call run from its first line to its last
\* ------------------------------------------------------------------------
\* decode, lines 108-136: the backward loop run to its end
RECURSIVE Resolve(_, _, _, _)
Resolve(cur, dir, remaining, buf) ==
    IF remaining <= 0 THEN [ok |-> TRUE, buf |-> buf]
    ELSE LET s == SearchFrom(cur, dir)
         IN  IF s.found
             THEN Resolve(s.pos, s.dir, remaining - 1, Bin(s.d, 6) \o buf)
             ELSE [ok |-> FALSE, buf |-> buf]

\* the position the backward loop ends on
RECURSIVE ResolvedStart(_, _, _)
ResolvedStart(cur, dir, remaining) ==
    IF remaining <= 0 THEN cur
    ELSE LET s == SearchFrom(cur, dir)
         IN  IF s.found THEN ResolvedStart(s.pos, s.dir, remaining - 1) ELSE cur

\* decode comparing the position the backward loop ends on with start_mask
decodeCheckStart(c) ==
    IF NothingToResolve(c) THEN Verify(c.original_hash, << >>)
    ELSE LET a == AnchorCheck(c)
         IN  IF ~a.ok THEN Raised("AnchorMismatch")
             ELSE LET r == Resolve(c.anchor_mask, a.dir,
                                   TotalChunks(c.length_bytes) - 1,
                                   Bin(c.last_choice, 6))
                      p == ResolvedStart(c.anchor_mask, a.dir,
                                         TotalChunks(c.length_bytes) - 1)
                  IN  IF ~r.ok THEN Raised("BackwardDecodeStuck")
                      ELSE IF p # c.start_mask THEN Raised("StartMismatch")
                      ELSE Verify(c.original_hash, Unpack(r.buf, c.length_bytes))

\* decode(coord), lines 70-146, run alone: what it returns or raises
decode(c) ==
    IF NothingToResolve(c) THEN Verify(c.original_hash, << >>)
    ELSE LET a == AnchorCheck(c)
         IN  IF ~a.ok THEN Raised("AnchorMismatch")
             ELSE LET r == Resolve(c.anchor_mask, a.dir,
                                   TotalChunks(c.length_bytes) - 1,
                                   Bin(c.last_choice, 6))
                  IN  IF ~r.ok THEN Raised("BackwardDecodeStuck")
                      ELSE Verify(c.original_hash, Unpack(r.buf, c.length_bytes))

\* decode_stream, lines 185-232: the backward loop and the flush run to the
\* end of the generator
RECURSIVE StreamResolve(_, _, _, _, _, _, _)
StreamResolve(cur, dir, remaining, buf, out, yielded, length_bytes) ==
    IF remaining <= 0
    THEN [result |-> Exhausted, out |-> FinalFlush(buf, out, yielded).out]
    ELSE LET s == StreamSearchFrom(cur, dir)
             y == YieldLoop(StreamPut(buf, s.d), out, yielded, length_bytes)
         IN  IF ~s.found
             THEN [result |-> Raised("BackwardDecodeStuck"), out |-> out]
             ELSE IF y.returned THEN [result |-> Exhausted, out |-> y.out]
             ELSE StreamResolve(s.pos, s.dir, remaining - 1, y.buf, y.out,
                                y.yielded, length_bytes)

\* decode_stream(coord), lines 148-232, drained alone: how the generator
\* ends and the bytes it yielded before that
decode_stream(c) ==
    LET a == StreamAnchorCheck(c)
    IN  IF ~a.ok THEN [result |-> Raised("AnchorMismatch"), out |-> << >>]
        ELSE StreamResolve(c.anchor_mask, a.dir,
                           StreamTotalChunks(c.length_bytes * 8) - 1,
                           StreamPut(<< >>, c.last_choice), << >>, 0,
                           c.length_bytes)

\* ------------------------------------------------------------------------
\* Coordinates that do not come from encode
\* ------------------------------------------------------------------------
\* poll_inbox: the probe coordinate built for one mask of the runway
coord_short(rs, m) ==
    [start_mask |-> rs, end_mask |-> m, anchor_mask |-> m - 8,
     last_choice |-> 0, last_direction |-> 1, length_bytes |-> 8,
     original_hash |-> NoHash]

\* number of masks of the runway a probe is built for
MaxProbe == 2

\* poll_inbox, line 159: range(current, batch_end, POLL_STEP_SIZE)
POLL_STEP_SIZE == 5

\* coordinates a caller loads from a file (Undelete recover): any JSON object
\* with the coordinate's fields, with or without "original_hash"
\* (positions on, inside, far outside and one step outside the lattice)
StoredCoords ==
    [start_mask : {50000},
     end_mask : {0, LOW, 50000, HIGH},
     anchor_mask : {256, LOW + 256, 50000, 50256, HIGH},
     last_choice : {0, 32},
     last_direction : {1, -1},
     length_bytes : 0..MaxLen,
     original_hash : {NoHash, Digest(<< 0 >>), Digest(<< 130 >>)}]
    \cup
    [start_mask : {50000},
     end_mask : {LOW - 8},
     anchor_mask : {LOW - 8},
     last_choice : {CENTER},
     last_direction : {-1},
     length_bytes : 1..MaxLen,
     original_hash : {NoHash}]
    \cup
    [start_mask : {50000},
     end_mask : {HIGH + 8},
     anchor_mask : {HIGH + 8},
     last_choice : {CENTER},
     last_direction : {1},
     length_bytes : 1..MaxLen,
     original_hash : {NoHash}]

\* byte buffers of length 0..n over ByteVals
RECURSIVE Buffers(_)
Buffers(n) ==
    IF n = 0 THEN {<< >>}
    ELSE Buffers(n - 1) \cup {Append(b, x) : b \in Buffers(n - 1), x \in ByteVals}

\* ------------------------------------------------------------------------
\* The scanners (Odins_mail.poll_inbox, Spacex_sim.poll_anomalies)
\* ------------------------------------------------------------------------
GLOBAL_ROOT == 50000
POLL_BATCH_SIZE == 1000
RUNWAY_LENGTH == 10000
RUNWAY_START == 50000
RUNWAY_END == RUNWAY_START + RUNWAY_LENGTH

\* values of _compute_runway_start, GLOBAL_ROOT + (h % 100000): both ends of
\* its range, and a start whose candidate masks pass over HIGH
RunwayStarts ==
    {GLOBAL_ROOT, HIGH - 100 * POLL_STEP_SIZE, GLOBAL_ROOT + 99999}

\* poll_anomalies: for guess_len in [512, 1024]
GuessLens ==
    << 512, 1024 >>

Max(a, b) ==
    IF a >= b THEN a ELSE b

\* poll_inbox, line 155
BatchEnd(cur, runway_end) ==
    Min(cur + POLL_BATCH_SIZE, runway_end)

\* Catches with a handler for the stuck search only
CatchesOnlyStuck(e) ==
    e = "BackwardDecodeStuck"

\* "except Exception": every error raised in the try block is an Exception
Catches(e) ==
    TRUE

\* int.from_bytes(b, 'big')
RECURSIVE IntBE(_)
IntBE(b) ==
    IF b = << >> THEN 0 ELSE IntBE(SubSeq(b, 1, Len(b) - 1)) * 256 + b[Len(b)]

\* poll_inbox, lines 160-201: the error the try block raises for one mask, ""
\* if it raises none.  MAGIC_PREFIX is a bytes object and has no encode
\* method, so line 183 raises AttributeError whenever it is reached.
ProbeRaises(rs, m) ==
    LET short == coord_short(rs, m)
        short_data == decode(short)
    IN  IF short_data.kind = "error" THEN short_data.err
        ELSE IF Len(short_data.bytes) < 8 THEN ""
        ELSE LET length_bytes == IntBE(SubSeq(short_data.bytes, 1, 4))
                 full == decode([short EXCEPT !.length_bytes = length_bytes + 8])
             IN  IF full.kind = "error" THEN full.err ELSE "AttributeError"

\* poll_anomalies: the probe coordinate of one mask and one guessed length
coord_guess(cur, guess_len) ==
    [start_mask |-> RUNWAY_START, end_mask |-> cur, anchor_mask |-> cur - 8,
     last_choice |-> 0, last_direction |-> 1, length_bytes |-> guess_len,
     original_hash |-> NoHash]

\* no UserState exists and no scanner runs
NoScanner ==
    /\ runway_start = None
    /\ last_checked_mask = None
    /\ ppc = "off"
    /\ p_current = 0
    /\ batch_end = 0
    /\ mask = 0
    /\ cycle_start = None
    /\ probed = 0
    /\ caught = 0
    /\ apc = "off"
    /\ a_current = 0
    /\ a_guess = 1
    /\ a_found = FALSE
    /\ a_caught = 0

\* OdinsEye(start_mask)
Init ==
    /\ start_mask \in StartMasks
    /\ pc = "idle"
    /\ data = << >>
    /\ chunks = << >>
    /\ current = 0
    /\ direction = 0
    /\ anchor = None
    /\ walk = << >>
    /\ coord = NoCoord
    /\ origin = "none"
    /\ dcurrent = 0
    /\ ddirection = 0
    /\ remaining_chunks = 0
    /\ bit_buffer = << >>
    /\ recovered = << >>
    /\ back = << >>
    /\ step1 = FALSE
    /\ compared = FALSE
    /\ result = NoResult
    /\ spc = "idle"
    /\ s_bit_buffer = << >>
    /\ s_bytes_yielded = 0
    /\ s_current = 0
    /\ s_direction = 0
    /\ s_remaining = 0
    /\ s_back = << >>
    /\ emitted = << >>
    /\ s_result = NoResult
    /\ NoScanner

decodeVars ==
    << dcurrent, ddirection, remaining_chunks, bit_buffer, recovered, back, step1,
       compared, result >>

streamVars ==
    << spc, s_bit_buffer, s_bytes_yielded, s_current, s_direction, s_remaining, s_back,
       emitted, s_result >>

scanVars ==
    << runway_start, last_checked_mask, ppc, p_current, batch_end, mask, cycle_start,
       probed, caught, apc, a_current, a_guess, a_found, a_caught >>

\* encode(data) up to the loop: the empty case returns at once
EncodeBegin ==
    /\ pc = "idle"
    /\ \E d \in Buffers(MaxLen) :
          /\ data' = d
          /\ origin' = "encode"
          /\ IF d = << >>
             THEN /\ coord' = EmptyCoord(start_mask)
                  /\ pc' = "coord"
                  /\ UNCHANGED << chunks, current, direction, anchor >>
             ELSE /\ current' = start_mask
                  /\ direction' = 1
                  /\ anchor' = None
                  /\ chunks' = Pack(d)
                  /\ pc' = "walk"
                  /\ UNCHANGED coord
    /\ UNCHANGED << start_mask, walk >>
    /\ UNCHANGED decodeVars
    /\ UNCHANGED streamVars
    /\ UNCHANGED scanVars

\* one iteration of "for d in chunks"
EncodeStep ==
    /\ pc = "walk"
    /\ Len(walk) < Len(chunks)
    /\ LET d == chunks[Len(walk) + 1]
           nxt == Step(current, direction, d)
       IN  /\ anchor' = current
           /\ current' = nxt.pos
           /\ direction' = nxt.dir
           /\ walk' = Append(walk, [from |-> current, dirin |-> direction, sym |-> d,
                                    pos |-> nxt.pos, dir |-> nxt.dir])
    /\ UNCHANGED << start_mask, pc, data, chunks, coord, origin >>
    /\ UNCHANGED decodeVars
    /\ UNCHANGED streamVars
    /\ UNCHANGED scanVars

\* the return of encode after the loop
EncodeReturn ==
    /\ pc = "walk"
    /\ Len(walk) = Len(chunks)
    /\ coord' = WalkCoord(start_mask, current, anchor, chunks, direction, data)
    /\ pc' = "coord"
    /\ UNCHANGED << start_mask, data, chunks, current, direction, anchor, walk, origin >>
    /\ UNCHANGED decodeVars
    /\ UNCHANGED streamVars
    /\ UNCHANGED scanVars

\* a caller loads a coordinate verbatim from storage
LoadStored ==
    /\ pc = "idle"
    /\ \E c \in StoredCoords :
          coord' = c
    /\ origin' = "stored"
    /\ pc' = "coord"
    /\ UNCHANGED << start_mask, data, chunks, current, direction, anchor, walk >>
    /\ UNCHANGED decodeVars
    /\ UNCHANGED streamVars
    /\ UNCHANGED scanVars

\* a scanner builds the probe coordinate of one mask
Probe ==
    /\ pc = "idle"
    /\ \E k \in 0..MaxProbe :
          coord' = coord_short(start_mask, start_mask + k * POLL_STEP_SIZE)
    /\ origin' = "probe"
    /\ pc' = "coord"
    /\ UNCHANGED << start_mask, data, chunks, current, direction, anchor, walk >>
    /\ UNCHANGED decodeVars
    /\ UNCHANGED streamVars
    /\ UNCHANGED scanVars

encodeVars ==
    << start_mask, data, chunks, current, direction, anchor, walk, coord, origin >>

\* decode(coord) up to the backward loop, lines 76-106
DecodeBegin ==
    /\ pc = "coord"
    /\ IF NothingToResolve(coord)
       THEN /\ recovered' = << >>
            /\ pc' = "verify"
            /\ UNCHANGED << dcurrent, ddirection, remaining_chunks, bit_buffer, step1,
                            result >>
       ELSE /\ bit_buffer' = Bin(coord.last_choice, 6)
            /\ dcurrent' = coord.anchor_mask
            /\ step1' = TRUE
            /\ LET a == AnchorCheck(coord)
               IN  /\ ddirection' = a.dir
                   /\ IF a.ok
                      THEN /\ remaining_chunks' = TotalChunks(coord.length_bytes) - 1
                           /\ pc' = "back"
                           /\ UNCHANGED result
                      ELSE /\ result' = Raised("AnchorMismatch")
                           /\ pc' = "ret"
                           /\ UNCHANGED remaining_chunks
            /\ UNCHANGED recovered
    /\ UNCHANGED << back, compared >>
    /\ UNCHANGED encodeVars
    /\ UNCHANGED streamVars
    /\ UNCHANGED scanVars

\* one iteration of "while remaining_chunks > 0", lines 108-136
DecodeBackStep ==
    /\ pc = "back"
    /\ remaining_chunks > 0
    /\ LET s == SearchFrom(dcurrent, ddirection)
       IN  IF s.found
           THEN /\ bit_buffer' = Bin(s.d, 6) \o bit_buffer
                /\ dcurrent' = s.pos
                /\ ddirection' = s.dir
                /\ remaining_chunks' = remaining_chunks - 1
                /\ back' = Append(back, [pos |-> dcurrent, dir |-> ddirection,
                                         d |-> s.d, prev |-> s.pos, dirout |-> s.dir])
                /\ UNCHANGED << pc, result >>
           ELSE /\ result' = Raised("BackwardDecodeStuck")
                /\ pc' = "ret"
                /\ UNCHANGED << bit_buffer, dcurrent, ddirection, remaining_chunks, back >>
    /\ UNCHANGED << recovered, step1, compared >>
    /\ UNCHANGED encodeVars
    /\ UNCHANGED streamVars
    /\ UNCHANGED scanVars

\* after the loop, lines 138-140
DecodeUnpack ==
    /\ pc = "back"
    /\ remaining_chunks = 0
    /\ recovered' = Unpack(bit_buffer, coord.length_bytes)
    /\ pc' = "verify"
    /\ UNCHANGED << dcurrent, ddirection, remaining_chunks, bit_buffer, back, step1,
                    compared, result >>
    /\ UNCHANGED encodeVars
    /\ UNCHANGED streamVars
    /\ UNCHANGED scanVars

\* DecodeVerify taking the hash out of the coordinate it was given
DecodeVerifyPop ==
    /\ pc = "verify"
    /\ compared' = (coord.original_hash # NoHash)
    /\ result' = Verify(coord.original_hash, recovered)
    /\ coord' = [coord EXCEPT !.original_hash = NoHash]
    /\ pc' = "ret"
    /\ UNCHANGED << dcurrent, ddirection, remaining_chunks, bit_buffer, recovered, back,
                    step1 >>
    /\ UNCHANGED << start_mask, data, chunks, current, direction, anchor, walk, origin >>
    /\ UNCHANGED streamVars
    /\ UNCHANGED scanVars

\* the hash verification and the return, lines 142-146
DecodeVerify ==
    /\ pc = "verify"
    /\ compared' = (coord.original_hash # NoHash)
    /\ result' = Verify(coord.original_hash, recovered)
    /\ pc' = "ret"
    /\ UNCHANGED << dcurrent, ddirection, remaining_chunks, bit_buffer, recovered, back,
                    step1 >>
    /\ UNCHANGED encodeVars
    /\ UNCHANGED streamVars
    /\ UNCHANGED scanVars

\* a coordinate exists: encode returned it, or a caller loaded or built it
HasCoord ==
    pc \in {"coord", "back", "verify", "ret"}

\* decode_stream(coord) up to the backward loop, lines 152-183; the call may
\* run while a decode of the same coordinate is in progress
StreamBegin ==
    /\ HasCoord
    /\ spc = "idle"
    /\ s_bit_buffer' = StreamPut(<< >>, coord.last_choice)
    /\ s_current' = coord.anchor_mask
    /\ LET a == StreamAnchorCheck(coord)
       IN  /\ s_direction' = a.dir
           /\ IF a.ok
              THEN /\ s_remaining' = StreamTotalChunks(coord.length_bytes * 8) - 1
                   /\ spc' = "loop"
                   /\ UNCHANGED s_result
              ELSE /\ s_result' = Raised("AnchorMismatch")
                   /\ spc' = "end"
                   /\ UNCHANGED s_remaining
    /\ UNCHANGED << s_bytes_yielded, s_back, emitted >>
    /\ UNCHANGED << pc, encodeVars, decodeVars >>
    /\ UNCHANGED scanVars

\* one iteration of "while remaining_chunks > 0", lines 185-224: the search
\* and the bytes yielded after it
StreamBackStep ==
    /\ spc = "loop"
    /\ s_remaining > 0
    /\ LET s == StreamSearchFrom(s_current, s_direction)
           y == YieldLoop(StreamPut(s_bit_buffer, s.d), emitted, s_bytes_yielded,
                          coord.length_bytes)
       IN  IF s.found
           THEN /\ s_current' = s.pos
                /\ s_direction' = s.dir
                /\ s_remaining' = s_remaining - 1
                /\ s_back' = Append(s_back, [pos |-> s_current, dir |-> s_direction,
                                             d |-> s.d, prev |-> s.pos,
                                             dirout |-> s.dir])
                /\ s_bit_buffer' = y.buf
                /\ emitted' = y.out
                /\ s_bytes_yielded' = y.yielded
                /\ IF y.returned
                   THEN s_result' = Exhausted /\ spc' = "end"
                   ELSE UNCHANGED << s_result, spc >>
           ELSE /\ s_result' = Raised("BackwardDecodeStuck")
                /\ spc' = "end"
                /\ UNCHANGED << s_current, s_direction, s_remaining, s_back,
                                s_bit_buffer, emitted, s_bytes_yielded >>
    /\ UNCHANGED << pc, encodeVars, decodeVars >>
    /\ UNCHANGED scanVars

\* after the loop, lines 226-232: the final flush and the end of the generator
StreamFlush ==
    /\ spc = "loop"
    /\ s_remaining <= 0
    /\ LET f == FinalFlush(s_bit_buffer, emitted, s_bytes_yielded)
       IN  /\ s_bit_buffer' = f.buf
           /\ emitted' = f.out
           /\ s_bytes_yielded' = f.yielded
    /\ s_result' = Exhausted
    /\ spc' = "end"
    /\ UNCHANGED << s_current, s_direction, s_remaining, s_back >>
    /\ UNCHANGED << pc, encodeVars, decodeVars >>
    /\ UNCHANGED scanVars

Next ==
    \/ EncodeBegin
    \/ EncodeStep
    \/ EncodeReturn
    \/ LoadStored
    \/ Probe
    \/ DecodeBegin
    \/ DecodeBackStep
    \/ DecodeUnpack
    \/ DecodeVerify
    \/ StreamBegin
    \/ StreamBackStep
    \/ StreamFlush

Spec ==
    Init /\ [][Next]_vars

\* ------------------------------------------------------------------------
\* The symbol codec on its own: pack (encode) followed by unpack (decode)
\* ------------------------------------------------------------------------
\* longest buffer of ByteVals handed to the codec
MaxCodecLen == 3

\* the non-empty buffers packed: every single byte, and the buffers over
\* ByteVals up to MaxCodecLen bytes (8 * 3 bits is the first length that
\* needs no padding)
CodecBuffers ==
    {<< x >> : x \in 0..255} \cup (Buffers(MaxCodecLen) \ {<< >>})

InitCodec ==
    /\ start_mask = 50000
    /\ pc = "idle"
    /\ data \in CodecBuffers
    /\ chunks = << >>
    /\ current = 0
    /\ direction = 0
    /\ anchor = None
    /\ walk = << >>
    /\ coord = NoCoord
    /\ origin = "none"
    /\ dcurrent = 0
    /\ ddirection = 0
    /\ remaining_chunks = 0
    /\ bit_buffer = << >>
    /\ recovered = << >>
    /\ back = << >>
    /\ step1 = FALSE
    /\ compared = FALSE
    /\ result = NoResult
    /\ spc = "idle"
    /\ s_bit_buffer = << >>
    /\ s_bytes_yielded = 0
    /\ s_current = 0
    /\ s_direction = 0
    /\ s_remaining = 0
    /\ s_back = << >>
    /\ emitted = << >>
    /\ s_result = NoResult
    /\ NoScanner

\* encode, lines 38-41: the buffer packed into symbols
CodecPack ==
    /\ pc = "idle"
    /\ chunks' = Pack(data)
    /\ pc' = "packed"
    /\ UNCHANGED << start_mask, data, current, direction, anchor, walk, coord, origin >>
    /\ UNCHANGED decodeVars
    /\ UNCHANGED streamVars
    /\ UNCHANGED scanVars

\* decode, lines 138-140: the symbols joined, truncated and regrouped
CodecUnpack ==
    /\ pc = "packed"
    /\ bit_buffer' = SymbolBits(chunks)
    /\ recovered' = Unpack(SymbolBits(chunks), Len(data))
    /\ pc' = "unpacked"
    /\ UNCHANGED << dcurrent, ddirection, remaining_chunks, back, step1, compared,
                    result >>
    /\ UNCHANGED << start_mask, data, chunks, current, direction, anchor, walk, coord,
                    origin >>
    /\ UNCHANGED streamVars
    /\ UNCHANGED scanVars

NextCodec ==
    \/ CodecPack
    \/ CodecUnpack

SpecCodec ==
    InitCodec /\ [][NextCodec]_vars

\* ------------------------------------------------------------------------
\* The scanners: Odins_mail.main with poll_inbox, Spacex_sim with
\* poll_anomalies.  Each probe is one decode run from its first line to its
\* last.
\* ------------------------------------------------------------------------
\* either UserState() and OdinsEye(start_mask=user.runway_start), or the
\* simulator's OdinsEye(start_mask=RUNWAY_START)
InitScan ==
    /\ pc = "idle"
    /\ data = << >>
    /\ chunks = << >>
    /\ current = 0
    /\ direction = 0
    /\ anchor = None
    /\ walk = << >>
    /\ coord = NoCoord
    /\ origin = "none"
    /\ dcurrent = 0
    /\ ddirection = 0
    /\ remaining_chunks = 0
    /\ bit_buffer = << >>
    /\ recovered = << >>
    /\ back = << >>
    /\ step1 = FALSE
    /\ compared = FALSE
    /\ result = NoResult
    /\ spc = "idle"
    /\ s_bit_buffer = << >>
    /\ s_bytes_yielded = 0
    /\ s_current = 0
    /\ s_direction = 0
    /\ s_remaining = 0
    /\ s_back = << >>
    /\ emitted = << >>
    /\ s_result = NoResult
    /\ p_current = 0
    /\ batch_end = 0
    /\ mask = 0
    /\ cycle_start = None
    /\ probed = 0
    /\ caught = 0
    /\ a_current = 0
    /\ a_guess = 1
    /\ a_found = FALSE
    /\ a_caught = 0
    /\ \/ /\ runway_start \in RunwayStarts
          /\ last_checked_mask = runway_start
          /\ start_mask = runway_start
          /\ ppc = "idle"
          /\ apc = "off"
       \/ /\ runway_start = None
          /\ last_checked_mask = None
          /\ start_mask = RUNWAY_START
          /\ ppc = "off"
          /\ apc = "idle"

eyeVars ==
    << pc, encodeVars, decodeVars, streamVars >>

anomVars ==
    << apc, a_current, a_guess, a_found, a_caught >>

\* poll_inbox up to the loop, lines 149-157
PollBegin ==
    /\ ppc \in {"idle", "done"}
    /\ cycle_start' = last_checked_mask
    /\ p_current' = Max(last_checked_mask, runway_start)
    /\ batch_end' = BatchEnd(p_current', runway_start + RUNWAY_LENGTH)
    /\ mask' = p_current'
    /\ probed' = 0
    /\ caught' = 0
    /\ ppc' = "loop"
    /\ UNCHANGED << runway_start, last_checked_mask >>
    /\ UNCHANGED << eyeVars, anomVars >>

\* one iteration of "for mask in range(current, batch_end, POLL_STEP_SIZE)",
\* lines 159-203: the try block and its handler.  No path of the try block
\* reaches the delivery of a message, so found_count stays 0 and the loop
\* is never left by break.
PollProbe ==
    /\ ppc = "loop"
    /\ mask < batch_end
    /\ LET e == ProbeRaises(runway_start, mask)
       IN  IF e = "" \/ Catches(e)
           THEN /\ caught' = IF e = "" THEN caught ELSE caught + 1
                /\ probed' = probed + 1
                /\ mask' = mask + POLL_STEP_SIZE
                /\ UNCHANGED ppc
           ELSE /\ ppc' = "raised"
                /\ UNCHANGED << caught, probed, mask >>
    /\ UNCHANGED << runway_start, last_checked_mask, p_current, batch_end, cycle_start >>
    /\ UNCHANGED << eyeVars, anomVars >>

\* after the loop, lines 205-208
PollEnd ==
    /\ ppc = "loop"
    /\ mask >= batch_end
    /\ last_checked_mask' = batch_end
    /\ ppc' = "done"
    /\ UNCHANGED << runway_start, p_current, batch_end, mask, cycle_start, probed,
                    caught >>
    /\ UNCHANGED << eyeVars, anomVars >>

pollVars ==
    << runway_start, last_checked_mask, ppc, p_current, batch_end, mask, cycle_start,
       probed, caught >>

\* poll_anomalies up to the loop, lines 39-40
AnomBegin ==
    /\ apc = "idle"
    /\ a_current' = RUNWAY_START
    /\ a_found' = FALSE
    /\ a_guess' = 1
    /\ apc' = "loop"
    /\ UNCHANGED a_caught
    /\ UNCHANGED << eyeVars, pollVars >>

\* one iteration of "for guess_len in [512, 1024]" inside the while loop,
\* lines 42-65: the try block, its handler, and after the last guess or a
\* break the "current += 10".  Whether returned bytes parse to a telemetry
\* record with vibration > 80 is the environment's choice.
AnomProbe ==
    /\ apc = "loop"
    /\ a_current < RUNWAY_END
    /\ ~a_found
    /\ LET r == decode(coord_guess(a_current, GuessLens[a_guess]))
       IN  IF r.kind = "error" /\ ~Catches(r.err)
           THEN /\ apc' = "raised"
                /\ UNCHANGED << a_current, a_guess, a_found, a_caught >>
           ELSE /\ UNCHANGED apc
                /\ \E f \in (IF r.kind = "error" THEN {FALSE} ELSE BOOLEAN) :
                      /\ a_found' = f
                      /\ a_caught' = IF r.kind = "error" THEN a_caught + 1 ELSE a_caught
                      /\ IF f \/ a_guess = Len(GuessLens)
                         THEN a_current' = a_current + 10 /\ a_guess' = 1
                         ELSE a_guess' = a_guess + 1 /\ UNCHANGED a_current
    /\ UNCHANGED << eyeVars, pollVars >>

\* the while loop is left, lines 67-68
AnomEnd ==
    /\ apc = "loop"
    /\ a_current >= RUNWAY_END \/ a_found
    /\ apc' = "done"
    /\ UNCHANGED << a_current, a_guess, a_found, a_caught >>
    /\ UNCHANGED << eyeVars, pollVars >>

NextScan ==
    \/ PollBegin
    \/ PollProbe
    \/ PollEnd
    \/ AnomBegin
    \/ AnomProbe
    \/ AnomEnd

SpecScan ==
    InitScan /\ [][NextScan]_vars

\* ------------------------------------------------------------------------
\* Odins_mail.main: the oscillator built on the user's runway, and the
\* encode calls of send_message
\* ------------------------------------------------------------------------
\* values of int.from_bytes(h[:8], 'big'), of which only the residue
\* modulo 100000 is used: residues 0, 49499, 49999, 50000, 56789 and 99999
HashInts ==
    {0, 49499, 49999, 50000, 99999, 100000, 123456789}

\* UserState._compute_runway_start, line 46
compute_runway_start(h) ==
    GLOBAL_ROOT + (h % 100000)

\* UserState(username) and OdinsEye(start_mask=user.runway_start)
InitMail ==
    /\ \E h \in HashInts : runway_start = compute_runway_start(h)
    /\ last_checked_mask = runway_start
    /\ start_mask = runway_start
    /\ ppc = "idle"
    /\ apc = "off"
    /\ pc = "idle"
    /\ data = << >>
    /\ chunks = << >>
    /\ current = 0
    /\ direction = 0
    /\ anchor = None
    /\ walk = << >>
    /\ coord = NoCoord
    /\ origin = "none"
    /\ dcurrent = 0
    /\ ddirection = 0
    /\ remaining_chunks = 0
    /\ bit_buffer = << >>
    /\ recovered = << >>
    /\ back = << >>
    /\ step1 = FALSE
    /\ compared = FALSE
    /\ result = NoResult
    /\ spc = "idle"
    /\ s_bit_buffer = << >>
    /\ s_bytes_yielded = 0
    /\ s_current = 0
    /\ s_direction = 0
    /\ s_remaining = 0
    /\ s_back = << >>
    /\ emitted = << >>
    /\ s_result = NoResult
    /\ p_current = 0
    /\ batch_end = 0
    /\ mask = 0
    /\ cycle_start = None
    /\ probed = 0
    /\ caught = 0
    /\ a_current = 0
    /\ a_guess = 1
    /\ a_found = FALSE
    /\ a_caught = 0

\* send_message: coord = eye.encode(prefixed)
NextMail ==
    \/ EncodeBegin
    \/ EncodeStep
    \/ EncodeReturn

SpecMail ==
    InitMail /\ [][NextMail]_vars

\* ------------------------------------------------------------------------
\* Properties
\* ------------------------------------------------------------------------
InLattice(p) ==
    LOW <= p /\ p <= HIGH

\* the candidate position of a recorded forward step
Candidate(w) ==
    w.from + w.dirin * (w.sym - 32) * 8

\* the recorded forward step crossed a boundary
Reflects(w) ==
    Candidate(w) > HIGH \/ Candidate(w) < LOW

\* within 504 units of LOW or of HIGH
NearBoundary(p) ==
    p - LOW <= 504 \/ HIGH - p <= 504

\* farther than 504 units from both LOW and HIGH
Interior(p) ==
    p - LOW > 504 /\ HIGH - p > 504

\* decode of the coordinate of encode(data) has returned or raised
DecodedOwn ==
    origin = "encode" /\ pc = "ret"

\* C1: decode applied to the coordinate returned by encode(b) either returns
\* exactly b or raises; it never returns a byte string different from b.
C1_ReturnsDataOrRaises ==
    DecodedOwn => (result.kind = "error" \/ result = Returned(data))

\* C1 witness: a non-empty buffer went through the backward search and decode
\* returned it.
C1_Witness ==
    /\ DecodedOwn
    /\ Len(data) >= 1
    /\ Len(back) >= 1
    /\ result = Returned(data)

\* C2: if every position visited by the forward walk of a non-empty buffer
\* lies within 504 units of LOW or of HIGH, decode(encode(b)) returns b.
C2_RoundTripNearBoundary ==
    ( /\ DecodedOwn
      /\ Len(data) >= 1
      /\ NearBoundary(start_mask)
      /\ \A i \in 1..Len(walk) : NearBoundary(walk[i].pos) )
    => result = Returned(data)

\* C3: decode of a coordinate produced by encode from a non-empty buffer never
\* fails with AnchorMismatch, also when the final step was reset to LOW or HIGH.
C3_NoAnchorMismatch ==
    (DecodedOwn /\ Len(data) >= 1) => result # Raised("AnchorMismatch")

\* C4: decode returns bytes only after the digest of the recovered bytes was
\* compared with the coordinate's content hash and found equal, whoever built
\* the coordinate.
C4_ReturnsOnlyVerified ==
    (pc = "ret" /\ result.kind = "bytes")
    => (compared /\ Digest(result.bytes) = coord.original_hash)

\* C5: start_mask, the current position of the walk, every position the walk
\* took and the three persisted positions lie within [LOW, HIGH].
C5_PositionsInLattice ==
    origin = "encode" =>
        /\ InLattice(start_mask)
        /\ pc = "walk" => InLattice(current)
        /\ \A i \in 1..Len(walk) : InLattice(walk[i].from) /\ InLattice(walk[i].pos)
        /\ pc \in {"coord", "back", "verify", "ret"} =>
              /\ InLattice(coord.start_mask)
              /\ InLattice(coord.anchor_mask)
              /\ InLattice(coord.end_mask)

\* C5 witness: encode returned a coordinate after a walk that crossed a
\* boundary.
C5_Witness ==
    /\ origin = "encode"
    /\ pc = "coord"
    /\ \E i \in 1..Len(walk) : Reflects(walk[i])

\* C6: a step whose candidate exceeds HIGH leaves position = LOW and
\* direction = +1, one whose candidate is below LOW leaves position = HIGH and
\* direction = -1, any other step leaves position = candidate and the
\* direction unchanged; each step starts where the previous one ended.
C6_ReflectionRule ==
    /\ \A i \in 1..Len(walk) :
          LET w == walk[i]
              candidate == w.from + w.dirin * (w.sym - 32) * 8
          IN  /\ candidate > HIGH => (w.pos = LOW /\ w.dir = 1)
              /\ candidate < LOW => (w.pos = HIGH /\ w.dir = -1)
              /\ (LOW <= candidate /\ candidate <= HIGH) =>
                    (w.pos = candidate /\ w.dir = w.dirin)
              /\ w.sym = chunks[i]
              /\ w.from = (IF i = 1 THEN start_mask ELSE walk[i - 1].pos)
              /\ w.dirin = (IF i = 1 THEN 1 ELSE walk[i - 1].dir)
    /\ (pc = "walk" /\ walk # << >>) =>
          (current = walk[Len(walk)].pos /\ direction = walk[Len(walk)].dir)

\* C6 witness: one walk with a step reset from above HIGH, a step reset from
\* below LOW and a step that crossed no boundary.
C6_Witness ==
    /\ \E i \in 1..Len(walk) : Candidate(walk[i]) > HIGH
    /\ \E i \in 1..Len(walk) : Candidate(walk[i]) < LOW
    /\ \E i \in 1..Len(walk) : ~Reflects(walk[i])

\* C7 as stated: the direction is +1 or -1 and changes on exactly the steps
\* that reflect.
C7_FlipsExactlyOnReflection ==
    \A i \in 1..Len(walk) :
        /\ walk[i].dir \in {1, -1}
        /\ Reflects(walk[i]) <=> (walk[i].dir # walk[i].dirin)

\* C7 amended: the direction is +1 or -1; a step that crosses no boundary
\* leaves it unchanged; a step reset from above HIGH leaves it +1 and a step
\* reset from below LOW leaves it -1, whatever it was before.
C7_FlipsOnlyOnReflection ==
    /\ pc = "walk" => direction \in {1, -1}
    /\ \A i \in 1..Len(walk) :
          /\ walk[i].dirin \in {1, -1}
          /\ walk[i].dir \in {1, -1}
          /\ ~Reflects(walk[i]) => walk[i].dir = walk[i].dirin
          /\ Candidate(walk[i]) > HIGH => walk[i].dir = 1
          /\ Candidate(walk[i]) < LOW => walk[i].dir = -1

\* C7 witness: one walk with a reflecting step that kept the direction and a
\* reflecting step that changed it.
C7_Witness ==
    /\ \E i \in 1..Len(walk) : Reflects(walk[i]) /\ walk[i].dir = walk[i].dirin
    /\ \E i \in 1..Len(walk) : Reflects(walk[i]) /\ walk[i].dir # walk[i].dirin

\* C8: in a coordinate encode produced from a non-empty buffer, anchor_mask is
\* the position before the final step, last_direction is the direction the
\* final step computed its delta with, and one forward step from anchor_mask
\* with last_choice and last_direction yields end_mask.
C8_CoordinateInvariant ==
    (origin = "encode" /\ pc = "coord" /\ Len(data) >= 1) =>
        LET w == walk[Len(walk)]
        IN  /\ coord.anchor_mask = w.from
            /\ coord.last_choice = w.sym
            /\ coord.last_direction = w.dirin
            /\ Step(coord.anchor_mask, coord.last_direction, coord.last_choice).pos
                  = coord.end_mask

\* C9: encode(b'') returns length_bytes = 0, start_mask = end_mask =
\* anchor_mask, last symbol 0 and the digest of the empty buffer; decode of it
\* returns b'' without the anchor verification or any backward step.
C9_EmptyInput ==
    (origin = "encode" /\ data = << >>) =>
        /\ pc \in {"coord", "verify", "ret"}
        /\ coord.length_bytes = 0
        /\ coord.start_mask = start_mask
        /\ coord.end_mask = coord.start_mask
        /\ coord.anchor_mask = coord.start_mask
        /\ coord.last_choice = 0
        /\ coord.original_hash = Digest(<< >>)
        /\ walk = << >>
        /\ ~step1
        /\ back = << >>
        /\ pc = "ret" => result = Returned(<< >>)

\* C9 witness: decode of the coordinate of the empty buffer has returned.
C9_Witness ==
    /\ DecodedOwn
    /\ data = << >>
    /\ coord.length_bytes = 0
    /\ result = Returned(<< >>)

\* the 6-bit strings of n symbols 0
RECURSIVE Zeros(_)
Zeros(n) ==
    IF n = 0 THEN << >> ELSE Bin(0, 6) \o Zeros(n - 1)

\* C10: at a backward step whose position is farther than 504 units from both
\* bounds every candidate d in 0..63 has an in-range predecessor and d = 0 is
\* accepted; the backward steps are determined by (anchor_mask, last symbol,
\* last_direction, end_mask, length_bytes) alone, so a resolution that stayed
\* interior yields the symbols 0, ..., 0, last symbol.
C10_TieBreak ==
    /\ \A i \in 1..Len(back) :
          /\ Interior(back[i].pos) =>
                /\ \A d \in 0..63 : InLattice(Prev(back[i].pos, back[i].dir, d))
                /\ back[i].d = 0
          /\ back[i].pos = (IF i = 1 THEN coord.anchor_mask ELSE back[i - 1].prev)
          /\ back[i].dir = (IF i = 1 THEN AnchorCheck(coord).dir ELSE back[i - 1].dirout)
    /\ ( /\ pc \in {"verify", "ret"}
         /\ back # << >>
         /\ result # Raised("BackwardDecodeStuck")
         /\ \A i \in 1..Len(back) : Interior(back[i].pos) )
       => /\ Len(back) = TotalChunks(coord.length_bytes) - 1
          /\ bit_buffer = Zeros(Len(back)) \o Bin(coord.last_choice, 6)

\* C10 witness: an interior backward step accepted 0 although the forward walk
\* used another symbol there.
C10_Witness ==
    /\ origin = "encode"
    /\ \E i \in 1..Len(back) :
          /\ Interior(back[i].pos)
          /\ back[i].d = 0
          /\ chunks[Len(chunks) - i] # 0

\* ------------------------------------------------------------------------
\* Properties of decode_stream
\* ------------------------------------------------------------------------
\* decode has left its backward loop without AnchorMismatch or
\* BackwardDecodeStuck
BatchResolved ==
    /\ pc \in {"verify", "ret"}
    /\ result # Raised("AnchorMismatch")
    /\ result # Raised("BackwardDecodeStuck")

\* the stream was drained to its end without raising
StreamDrained ==
    spc = "end" /\ s_result = Exhausted

\* C11: for a coordinate with length_bytes >= 1, decode_stream and decode
\* perform the same Step 1 and the same backward search: the same symbols in
\* the same order, AnchorMismatch and BackwardDecodeStuck on the same
\* coordinates.
C11_StreamResolvesLikeBatch ==
    (HasCoord /\ coord.length_bytes >= 1) =>
        /\ \A i \in 1..Min(Len(back), Len(s_back)) : s_back[i] = back[i]
        /\ (pc \in {"back", "verify", "ret"} /\ spc # "idle") =>
              /\ (result = Raised("AnchorMismatch"))
                    <=> (s_result = Raised("AnchorMismatch"))
              /\ (pc = "back" /\ spc = "loop" /\ back = << >> /\ s_back = << >>) =>
                    (dcurrent = s_current /\ ddirection = s_direction)
        /\ (pc = "ret" /\ spc = "end") =>
              /\ s_back = back
              /\ (result = Raised("BackwardDecodeStuck"))
                    <=> (s_result = Raised("BackwardDecodeStuck"))

\* C11 witness: both calls finished on a coordinate with two backward steps,
\* one of them resolved to a symbol other than 0.
C11_Witness ==
    /\ pc = "ret"
    /\ spc = "end"
    /\ coord.length_bytes >= 1
    /\ Len(s_back) >= 2
    /\ s_back = back
    /\ \E i \in 1..Len(s_back) : s_back[i].d # 0

\* C12: on a coordinate with length_bytes >= 1 the stream never yields more
\* than length_bytes bytes, yields each byte as soon as 8 bits accumulated,
\* stays in its loop only while backward steps remain, of which there are
\* ceil(8n/6) - 1 in all, and, drained without raising, has yielded exactly
\* length_bytes bytes.
C12_StreamYieldsLengthBytes ==
    (HasCoord /\ coord.length_bytes >= 1 /\ spc # "idle") =>
        /\ Len(emitted) <= coord.length_bytes
        /\ s_bytes_yielded = Len(emitted)
        /\ spc = "loop" =>
              /\ Len(s_bit_buffer) < 8
              /\ Len(emitted) = (6 * (Len(s_back) + 1)) \div 8
              /\ s_remaining + Len(s_back) = (8 * coord.length_bytes + 5) \div 6 - 1
              /\ s_remaining > 0
        /\ StreamDrained => Len(emitted) = coord.length_bytes

\* C12 witness: a stream of a two-byte coordinate was drained.
C12_Witness ==
    /\ StreamDrained
    /\ coord.length_bytes >= 2
    /\ Len(emitted) = coord.length_bytes

\* reverse of a sequence
RECURSIVE Reverse(_)
Reverse(q) ==
    IF q = << >> THEN << >> ELSE Append(Reverse(Tail(q)), Head(q))

\* a bit string of 6-bit symbols with the order of the symbols reversed
RECURSIVE ReverseSymbols(_)
ReverseSymbols(bits) ==
    IF Len(bits) <= 6 THEN bits
    ELSE ReverseSymbols(SubSeq(bits, 7, Len(bits))) \o SubSeq(bits, 1, 6)

\* C13 as stated: the drained stream is the byte sequence the batch decoder
\* reconstructs, in reverse byte order.
C13_StreamIsBatchReversed ==
    (BatchResolved /\ StreamDrained) => emitted = Reverse(recovered)

\* C13 amended: the drained stream is the batch decoder's symbol sequence in
\* reverse symbol order (the resolution order), cut to length_bytes * 8 bits
\* and regrouped into bytes.
C13_StreamIsSymbolReversed ==
    (BatchResolved /\ StreamDrained) =>
        emitted = Unpack(ReverseSymbols(bit_buffer), coord.length_bytes)

\* C13 witness: both decoders finished and the drained stream is neither the
\* batch bytes nor their reversal.
C13_Witness ==
    /\ BatchResolved
    /\ StreamDrained
    /\ coord.length_bytes >= 2
    /\ emitted # Reverse(recovered)
    /\ emitted # recovered

\* C14: when the bytes the stream reconstructed do not match the coordinate's
\* content hash, decode_stream has raised by the time it is drained.
C14_StreamSignalsMismatch ==
    ( /\ spc = "end"
      /\ coord.original_hash # NoHash
      /\ Digest(emitted) # coord.original_hash )
    => s_result.kind = "error"

\* C18: draining decode_stream on the coordinate of encode(b'') yields no
\* bytes and raises no error, as decode does.
C18_EmptyStreamLikeBatch ==
    (origin = "encode" /\ data = << >> /\ spc = "end") =>
        (s_result = Exhausted /\ emitted = << >>)

\* ------------------------------------------------------------------------
\* Properties of the calls taken together
\* ------------------------------------------------------------------------
\* C15: no call writes state that outlives it. No step of encode, decode or
\* decode_stream changes the instance's start_mask; once a coordinate exists
\* no step of decode or decode_stream changes any of its fields; and a
\* decode and a decode_stream whose steps interleave on one instance end as
\* each of them ends when run alone from its first line to its last.
C15_CallsIndependent ==
    /\ [][start_mask' = start_mask /\ (HasCoord => coord' = coord)]_vars
    /\ [](pc = "ret" => result = decode(coord))
    /\ [](spc = "end" => /\ s_result = decode_stream(coord).result
                         /\ emitted = decode_stream(coord).out)

\* a decode and a decode_stream of one coordinate are both in the middle of
\* their backward loops, each having resolved a symbol
C15_Witness ==
    /\ origin = "encode"
    /\ pc = "back" /\ remaining_chunks > 0 /\ Len(back) >= 1
    /\ spc = "loop" /\ s_remaining > 0 /\ Len(s_back) >= 1

\* C16: decode terminates. For a coordinate of n >= 1 bytes the backward loop
\* makes at most ceil(8n/6) - 1 steps: the steps made and the steps left
\* always add up to that number and the steps left never go below zero, so
\* each step either ends the call or leaves one step fewer; each step settles
\* on a symbol among the 64 candidates 0..63; and a call that left the loop
\* has returned, raised, or is at the verification that returns or raises.
C16_DecodeTerminates ==
    (HasCoord /\ coord.length_bytes >= 1) =>
        LET bound == (8 * coord.length_bytes + 5) \div 6 - 1
        IN  /\ Len(back) <= bound
            /\ \A i \in 1..Len(back) : back[i].d \in 0..63
            /\ pc = "back" => /\ remaining_chunks >= 0
                              /\ remaining_chunks + Len(back) = bound
            /\ pc = "verify" => Len(back) = bound
            /\ pc = "ret" => result.kind \in {"bytes", "error"}

\* a decode of a two-byte buffer's coordinate made both of its backward steps
\* and returned
C16_Witness ==
    /\ pc = "ret"
    /\ coord.length_bytes = 2
    /\ Len(back) = 2
    /\ result.kind = "bytes"

\* C20: for a coordinate whose anchor_mask lies in [LOW, HIGH] and that passed
\* the anchor verification, no backward step of decode fails to find a symbol
\* (BackwardDecodeStuck is not raised) and the position is within [LOW, HIGH]
\* after every backward step.
C20_NeverStuckInLattice ==
    (/\ pc \in {"back", "verify", "ret"}
     /\ step1
     /\ result # Raised("AnchorMismatch")
     /\ InLattice(coord.anchor_mask)) =>
        /\ result # Raised("BackwardDecodeStuck")
        /\ InLattice(dcurrent)
        /\ \A i \in 1..Len(back) : InLattice(back[i].prev)

\* a decode resolved a backward step from the anchor HIGH, where every
\* candidate below CENTER points outside the lattice
C20_Witness ==
    /\ step1
    /\ coord.anchor_mask = HIGH
    /\ Len(back) >= 1
    /\ back[1].pos = HIGH /\ back[1].dir = 1
    /\ back[1].d = CENTER
    /\ InLattice(back[1].prev)

\* ------------------------------------------------------------------------
\* Properties of the symbol codec
\* ------------------------------------------------------------------------
\* C17: packing a non-empty buffer b yields exactly ceil(8 * len(b) / 6)
\* symbols, each in 0..63, the final one zero in the bits that pad it; and
\* the symbols written as 6-bit strings, joined, cut to 8 * len(b) bits and
\* regrouped into bytes are b again.
C17_CodecRoundTrip ==
    /\ pc \in {"packed", "unpacked"} =>
          LET n == (8 * Len(data) + 5) \div 6
              pad == 6 * n - 8 * Len(data)
          IN  /\ Len(chunks) = n
              /\ \A i \in 1..n : chunks[i] \in 0..63
              /\ chunks[n] % Pow2(pad) = 0
    /\ pc = "unpacked" =>
          /\ Len(bit_buffer) = 6 * Len(chunks)
          /\ recovered = data

\* a two-byte buffer whose final symbol is padded and not zero went through
\* the codec and came back
C17_Witness ==
    /\ pc = "unpacked"
    /\ Len(data) = 2
    /\ Len(chunks) = 3
    /\ chunks[3] # 0
    /\ recovered = data

C21_SymbolsLowAndMonotone ==
    \A i \in 1..Len(back) :
        /\ InLattice(back[i].pos) => back[i].d <= CENTER
        /\ back[i].dir = 1 => back[i].prev >= back[i].pos
        /\ back[i].dir = -1 => back[i].prev <= back[i].pos

\* C21 amended: across every backward step of decode taken from a position
\* in [LOW, HIGH] the resolved symbol is at most CENTER and the position does
\* not decrease while the direction is +1 and does not increase while it is
\* -1; a step taken from a position outside [LOW, HIGH] moves toward the
\* lattice whatever the direction.
C21_MonotoneInLattice ==
    \A i \in 1..Len(back) :
        IF InLattice(back[i].pos)
        THEN /\ back[i].d <= CENTER
             /\ back[i].dir = 1 => back[i].prev >= back[i].pos
             /\ back[i].dir = -1 => back[i].prev <= back[i].pos
        ELSE /\ InLattice(back[i].prev)
             /\ back[i].pos < LOW => back[i].prev > back[i].pos
             /\ back[i].pos > HIGH => back[i].prev < back[i].pos

\* a decode took a backward step with a symbol below CENTER that moved the
\* position up under direction +1, and one with the symbol CENTER that left
\* the position at HIGH
C21_Witness ==
    /\ Len(back) >= 2
    /\ \E i \in 1..Len(back) :
          /\ InLattice(back[i].pos) /\ back[i].dir = 1
          /\ back[i].d < CENTER /\ back[i].prev > back[i].pos
    /\ \E i \in 1..Len(back) :
          /\ back[i].pos = HIGH /\ back[i].dir = 1
          /\ back[i].d = CENTER /\ back[i].prev = HIGH

\* the backward steps in q keep one direction and are all accepted by the
\* in-range branch: the resolved position is the predecessor itself
SameDirection(q) ==
    \A i \in 1..Len(q) :
        /\ q[i].dirout = q[i].dir
        /\ q[i].dir = q[1].dir
        /\ q[i].prev = q[i].pos - q[i].dir * (q[i].d - 32) * 8
        /\ LOW <= q[i].prev /\ q[i].prev <= HIGH

\* C22: during the backward loop of decode and of decode_stream the direction
\* keeps the value resolved in Step 1 (the value the first backward step
\* starts with) at every step, and no step is accepted by one of the two
\* reset-unwind branches: every resolved position is position - delta.
C22_DirectionFixed ==
    /\ SameDirection(back)
    /\ (pc = "back" /\ back # << >>) => ddirection = back[1].dir
    /\ SameDirection(s_back)
    /\ (spc = "loop" /\ s_back # << >>) => s_direction = s_back[1].dir

\* decode and decode_stream each took two backward steps, one of them from
\* the bound HIGH, where a predecessor beyond the bound is what the unwind
\* branches test for, and the direction stayed +1
C22_Witness ==
    /\ Len(back) = 2 /\ Len(s_back) = 2
    /\ \E i \in 1..2 :
          /\ back[i].pos = HIGH /\ back[i].dir = 1 /\ back[i].dirout = 1
          /\ s_back[i].pos = HIGH /\ s_back[i].dir = 1 /\ s_back[i].dirout = 1

\* ------------------------------------------------------------------------
\* Properties of decode as a function of the coordinate
\* ------------------------------------------------------------------------
\* start_mask values a coordinate may carry instead of its own
OtherStarts ==
    StartMasks \cup {0, LOW - 8, HIGH + 8, 149999}

\* C23: the outcome of decode does not depend on start_mask. Whatever decode
\* returned or raised for a coordinate, it returns or raises the same for
\* every coordinate that differs from it in the start_mask field only; in
\* particular it returns bytes where the position after the last backward
\* step is not the coordinate's start_mask.
C23_StartMaskIgnored ==
    pc = "ret" =>
        \A sm \in OtherStarts :
            decode([coord EXCEPT !.start_mask = sm]) = result

\* decode returned bytes for a stored coordinate although the position
\* after its last backward step is not the coordinate's start_mask
C23_Witness ==
    /\ pc = "ret"
    /\ origin = "stored"
    /\ result.kind = "bytes"
    /\ Len(back) >= 1
    /\ dcurrent # coord.start_mask

\* ------------------------------------------------------------------------
\* Properties of the probe coordinates
\* ------------------------------------------------------------------------
\* end_mask values of a probe: far below, around and on both bounds, inside
\* the lattice, and above it up to the end of the highest runway
ProbeMasks ==
    {0, 8, LOW - 8, LOW, LOW + 8, LOW + 248, LOW + 256, 50000, HIGH - 256,
     HIGH - 248, HIGH - 8, HIGH, HIGH + 8, HIGH + 256, 159999}

\* C24: no probe coordinate of the scanners (anchor_mask = end_mask - 8,
\* last_choice = 0, last_direction = 1, length_bytes >= 1) passes the anchor
\* verification, for any end_mask: decode raises AnchorMismatch for every
\* mask poll_inbox and poll_anomalies try. So every try block of poll_inbox
\* ends in its handler (as many exceptions caught as masks tried), none
\* reaches the lines that append to the inbox or the queue and count
\* found_count, and poll_anomalies never sets found.
C24_ProbesNeverMatch ==
    /\ \A m \in ProbeMasks : \A n \in {1, 8, 512} :
          /\ ~AnchorCheck([coord_short(GLOBAL_ROOT, m) EXCEPT !.length_bytes = n]).ok
          /\ decode([coord_short(GLOBAL_ROOT, m) EXCEPT !.length_bytes = n])
                = Raised("AnchorMismatch")
    /\ (ppc = "loop" /\ mask < batch_end) =>
          /\ ~AnchorCheck(coord_short(runway_start, mask)).ok
          /\ ProbeRaises(runway_start, mask) = "AnchorMismatch"
    /\ ppc \in {"loop", "done"} => caught = probed
    /\ (apc = "loop" /\ a_current < RUNWAY_END) =>
          /\ ~AnchorCheck(coord_guess(a_current, GuessLens[a_guess])).ok
          /\ decode(coord_guess(a_current, GuessLens[a_guess]))
                = Raised("AnchorMismatch")
    /\ apc \in {"loop", "done"} =>
          /\ ~a_found
          /\ a_caught = 2 * ((a_current - RUNWAY_START) \div 10) + (a_guess - 1)

\* poll_inbox ended the cycle that reaches the end of the runway: in it as
\* in the cycles before, each of the 200 masks tried raised
C24_Witness ==
    /\ ppc = "done"
    /\ cycle_start > runway_start
    /\ last_checked_mask = runway_start + RUNWAY_LENGTH
    /\ probed = 200
    /\ caught = probed

\* ------------------------------------------------------------------------
\* Properties of Odin Mail's oscillator
\* ------------------------------------------------------------------------
\* C25: the start_mask Odin Mail hands to the oscillator is a lattice
\* position: _compute_runway_start returns a value within [LOW, HIGH], and
\* the position every encode of that oscillator starts from, and every
\* position a step of it starts from, is within [LOW, HIGH].
C25_RunwayStartInLattice ==
    pc \in {"walk", "coord"} =>
        /\ InLattice(runway_start)
        /\ InLattice(start_mask)
        /\ InLattice(coord.start_mask) \/ pc = "walk"
        /\ (pc = "walk" /\ walk = << >>) => InLattice(current)
        /\ \A i \in 1..Len(walk) : InLattice(walk[i].from)

====
